---- MODULE Spec2Model ----
(***************************************************************************)
(* Model of sqlx-core/src/postgres/types/record.rs: PgRecordEncoder (new,  *)
(* encode, finish) writing the binary composite layout into a              *)
(* PgArgumentBuffer, and PgRecordDecoder (new, try_decode) reading the     *)
(* binary and the text layout of a composite value.                        *)
(*                                                                         *)
(* Buffers are sequences of bytes (0..255).  A Rust panic (slice index out *)
(* of range, copy_from_slice length mismatch, bytes::Buf underflow) is the *)
(* state panicked = TRUE, after which nothing runs.                        *)
(***************************************************************************)
EXTENDS Integers, Sequences, FiniteSets, TLC

(***************************************************************************)
(* Bounds of the model.                                                    *)
(***************************************************************************)
MaxFields == 2
MaxPayload == 1
MaxDecl == 2
MaxText == 4
MaxCalls == 3
MaxFinish == 2

(***************************************************************************)
(* Type identifiers: bool (16), int4 (23) and the generic record (2249)    *)
(* are known to the type catalog, 70000 is an OID it does not resolve.     *)
(***************************************************************************)
KnownOids == {16, 23, 2249}
DeclOids == {16, 23}
FieldOids == DeclOids \cup {70000}

\* the bytes payloads are made of
PayloadBytes == {7}
Payloads == UNION {[1..n -> PayloadBytes] : n \in 0..MaxPayload}

\* characters of the text layout
CH_QUOTE == 34
CH_COMMA == 44
CH_BACKSLASH == 92
CH_LPAREN == 40
CH_RPAREN == 41
\* the characters of the text values: the three the scanner tells apart, an
\* ASCII letter (a) and a byte above 127
TextAlphabet == {CH_QUOTE, CH_COMMA, CH_BACKSLASH, 97, 233}

(***************************************************************************)
(* Option<&[u8]>: the payload of a value, absent for NULL.                 *)
(***************************************************************************)
None == [some |-> FALSE, bytes |-> <<>>]
Some(b) == [some |-> TRUE, bytes |-> b]
Values == {None} \cup {Some(p) : p \in Payloads}

(***************************************************************************)
(* Big-endian integers.  TLC integers are 32 bits wide, so a u32 is        *)
(* carried as its 32-bit pattern: patterns with the high bit set appear as *)
(* negative numbers.  The code only compares OIDs for equality, which the  *)
(* pattern preserves.                                                      *)
(***************************************************************************)
BeBytes(n) ==
    LET m == IF n < 0 THEN (n + 2147483647) + 1 ELSE n
        hi == IF n < 0 THEN 128 ELSE 0
    IN  <<hi + (m \div 16777216), (m \div 65536) % 256, (m \div 256) % 256, m % 256>>

FromBeBytes(b) ==
    LET b1 == IF b[1] >= 128 THEN b[1] - 256 ELSE b[1]
    IN  b1 * 16777216 + b[2] * 65536 + b[3] * 256 + b[4]

Take(s, n) == SubSeq(s, 1, n)
Drop(s, n) == SubSeq(s, n + 1, Len(s))

\* buf[offset..].copy_from_slice(src): panics unless the tail from offset has
\* exactly the length of src
CopyFits(buf, offset, src) == Len(buf) - offset = Len(src)
CopyFromSlice_front(buf, offset, src) == src \o Drop(buf, Len(src))
CopyFromSlice(buf, offset, src) == Take(buf, offset) \o src

(***************************************************************************)
(* Types of the values handed to encode: a resolved OID or a type declared *)
(* by name (PgType::DeclareWithName).                                      *)
(***************************************************************************)
Resolved(oid) == [declared |-> FALSE, oid |-> oid, name |-> ""]
DeclareWithName(name) == [declared |-> TRUE, oid |-> 0, name |-> name]
EncTypes == {Resolved(o) : o \in DeclOids} \cup {DeclareWithName("t")}

\* PgArgumentBuffer::push_type_hole: four placeholder bytes, and the offset
\* and name remembered for the rewrite at statement preparation
HoleBytes == <<0, 0, 0, 0>>
PushTypeHole(holes, len, name) == Append(holes, <<len, name>>)

\* Encode::encode of the value codec: NULL appends nothing
CodecBytes(value) == IF value.some THEN value.bytes ELSE <<>>

\* the size written into the length field (lines 55-59)
SizeOf_zero(isNull, len, offset) == IF isNull THEN 0 ELSE len - offset + 4
SizeOf(isNull, len, offset) == IF isNull THEN 0 - 1 ELSE len - offset + 4

VARIABLES
    buf,        \* PgArgumentBuffer bytes
    type_holes, \* PgArgumentBuffer type holes
    enc,        \* "none" before PgRecordEncoder::new, then "open"
    off,        \* PgRecordEncoder.off
    num,        \* PgRecordEncoder.num
    dec,        \* "none" before PgRecordDecoder::new, then "open"
    dbuf,       \* PgRecordDecoder.buf
    typ,        \* PgRecordDecoder.typ
    fmt,        \* PgRecordDecoder.fmt
    ind,        \* PgRecordDecoder.ind
    panicked,   \* a panic was raised
    last,       \* the last call, its arguments and what it returned
    hist        \* what the calls so far were given and returned

vars == <<buf, type_holes, enc, off, num, dec, dbuf, typ, fmt, ind, panicked, last, hist>>
encVars == <<buf, type_holes, enc, off, num>>
decVars == <<dec, dbuf, typ, fmt, ind>>

(***************************************************************************)
(* Type descriptors of the value a decoder is built over (PgTypeInfo and   *)
(* its PgTypeKind).  A composite lists the OIDs of its declared fields.    *)
(***************************************************************************)
RecordType == [pg |-> "Record", kind |-> "Simple", fields |-> <<>>]
Int4Type == [pg |-> "Int4", kind |-> "Simple", fields |-> <<>>]
Int4ArrayType == [pg |-> "Int4Array", kind |-> "Array", fields |-> <<>>]
CompositeType(fl) == [pg |-> "Custom", kind |-> "Composite", fields |-> fl]
DeclLists == UNION {[1..n -> DeclOids] : n \in 0..MaxDecl}
DecTypes == {RecordType, Int4Type, Int4ArrayType} \cup {CompositeType(fl) : fl \in DeclLists}

\* PgTypeInfo::try_from_oid: the catalog resolves the OIDs it knows
NoType == [some |-> FALSE, oid |-> 0]
SomeType(oid) == [some |-> TRUE, oid |-> oid]
TryFromOid(oid) == IF oid \in KnownOids THEN SomeType(oid) ELSE NoType
\* PgTypeInfo::with_oid: a bare descriptor carrying just the OID
WithOid(oid) == [oid |-> oid, catalog |-> FALSE]
FromCatalog(oid) == [oid |-> oid, catalog |-> TRUE]

\* the decode targets T, each given by the OIDs T::accepts admits
Targets == {{o} : o \in DeclOids}
Accepts(T, oid) == oid \in T

\* line 120: the declared OID of the field against the OID of the payload
CompositeMismatch_never(declared, element_type_oid) == FALSE
CompositeMismatch(declared, element_type_oid) == declared # element_type_oid

\* line 153: the position counter after a binary field
NextInd_stuck(i) == i
NextInd(i) == i + 1

(***************************************************************************)
(* What one call of try_decode returns, and the decoder it leaves.         *)
(* res: "no_field", "composite_mismatch", "not_composite",                 *)
(* "mismatched_types", "decoded" (T::decode was invoked on value and ty)   *)
(* or "panic".                                                             *)
(***************************************************************************)
Outcome(res, b, i, idx, value, ty) ==
    [res |-> res, dbuf |-> b, ind |-> i, idx |-> idx, value |-> value, ty |-> ty]
Failed(res, b, i) == Outcome(res, b, i, i, None, WithOid(0))
Panic(b, i) == Failed("panic", b, i)

\* lines 144-160: the length, the payload, the cursor and the counter
BinaryPayload_noadvance(b, i, element_type) ==
    IF Len(b) < 4 THEN Panic(b, i)
    ELSE LET element_len == FromBeBytes(Take(b, 4))
             b1 == Drop(b, 4)
         IN  IF element_len < 0
             THEN Outcome("decoded", b1, NextInd(i), i, None, element_type)
             ELSE IF element_len > Len(b1) THEN Panic(b1, i)
             ELSE Outcome("decoded", b1, NextInd(i), i,
                          Some(Take(b1, element_len)), element_type)
BinaryPayload(b, i, element_type) ==
    IF Len(b) < 4 THEN Panic(b, i)
    ELSE LET element_len == FromBeBytes(Take(b, 4))
             b1 == Drop(b, 4)
         IN  IF element_len < 0
             THEN Outcome("decoded", b1, NextInd(i), i, None, element_type)
             ELSE IF element_len > Len(b1) THEN Panic(b1, i)
             ELSE Outcome("decoded", Drop(b1, element_len), NextInd(i), i,
                          Some(Take(b1, element_len)), element_type)

\* lines 135-142: the acceptance check and the descriptor handed to decode
BinaryAccept_open(b, i, T, element_type_opt, element_type_oid) ==
    BinaryPayload(b, i, IF element_type_opt.some
                        THEN FromCatalog(element_type_opt.oid)
                        ELSE WithOid(element_type_oid))
BinaryAccept(b, i, T, element_type_opt, element_type_oid) ==
    IF element_type_opt.some /\ ~Accepts(T, element_type_opt.oid)
    THEN Failed("mismatched_types", b, i)
    ELSE BinaryPayload(b, i, IF element_type_opt.some
                             THEN FromCatalog(element_type_opt.oid)
                             ELSE WithOid(element_type_oid))

\* lines 111-133: the OID of the field and the type expected at this position
BinaryField(b, t, i, T) ==
    IF Len(b) < 4 THEN Panic(b, i)
    ELSE LET element_type_oid == FromBeBytes(Take(b, 4))
             b1 == Drop(b, 4)
         IN  IF t.kind = "Simple" /\ t.pg = "Record"
             THEN BinaryAccept(b1, i, T, TryFromOid(element_type_oid), element_type_oid)
             ELSE IF t.kind = "Composite"
             THEN IF i >= Len(t.fields) THEN Panic(b1, i)
                  ELSE IF CompositeMismatch(t.fields[i + 1], element_type_oid)
                  THEN Failed("composite_mismatch", b1, i)
                  ELSE BinaryAccept(b1, i, T, SomeType(t.fields[i + 1]), element_type_oid)
             ELSE Failed("not_composite", b1, i)

\* String::push of a byte read as a char: UTF-8 of the code point
Utf8(ch) == IF ch < 128 THEN <<ch>> ELSE <<192 + (ch \div 64), 128 + (ch % 64)>>

\* lines 164-168: the scanner before the first character
ScanStart(b) ==
    [buf |-> b, element |-> <<>>, quoted |-> FALSE, in_quotes |-> FALSE,
     in_escape |-> FALSE, prev_ch |-> 0, done |-> FALSE]

\* lines 171-201: one character of the scan
ScanChar(s) ==
    LET ch == Head(s.buf)
        s1 == [s EXCEPT !.buf = Tail(s.buf), !.prev_ch = ch]
    IN  IF s.in_escape
        THEN [s1 EXCEPT !.element = s.element \o Utf8(ch), !.in_escape = FALSE]
        ELSE IF ch = CH_QUOTE /\ s.in_quotes
        THEN [s1 EXCEPT !.in_quotes = FALSE]
        ELSE IF ch = CH_QUOTE
        THEN [s1 EXCEPT !.in_quotes = TRUE, !.quoted = TRUE,
                        !.element = IF s.prev_ch = CH_QUOTE
                                    THEN s.element \o Utf8(CH_QUOTE)
                                    ELSE s.element]
        ELSE IF ch = CH_BACKSLASH
        THEN [s1 EXCEPT !.in_escape = TRUE]
        ELSE IF ch = CH_COMMA /\ ~s.in_quotes
        THEN [s EXCEPT !.buf = Tail(s.buf), !.done = TRUE]
        ELSE [s1 EXCEPT !.element = s.element \o Utf8(ch)]

\* lines 170-202: the scan loop
RECURSIVE Scan(_)
Scan(s) == IF s.done \/ s.buf = <<>> THEN s ELSE Scan(ScanChar(s))

\* lines 163-221: one text field
TextField_emptyNull(b, i) ==
    LET s == Scan(ScanStart(b))
    IN  Outcome("decoded", s.buf, i, i,
                IF s.element = <<>> THEN None ELSE Some(s.element),
                WithOid(0))
TextField_peek(b, i) ==
    LET s == Scan(ScanStart(b))
    IN  Outcome("decoded", IF s.done THEN <<CH_COMMA>> \o s.buf ELSE s.buf, i, i,
                IF s.element = <<>> /\ ~s.quoted THEN None ELSE Some(s.element),
                WithOid(0))
TextField(b, i) ==
    LET s == Scan(ScanStart(b))
    IN  Outcome("decoded", s.buf, i, i,
                IF s.element = <<>> /\ ~s.quoted THEN None ELSE Some(s.element),
                WithOid(0))

\* lines 102-224
TryDecodeOutcome_count(b, t, f, i, T) ==
    IF b = <<>> THEN Outcome("no_field", b, i + 1, i, None, WithOid(0))
    ELSE IF f = "Binary" THEN BinaryField(b, t, i, T)
    ELSE TextField(b, i)
TryDecodeOutcome(b, t, f, i, T) ==
    IF b = <<>> THEN Failed("no_field", b, i)
    ELSE IF f = "Binary" THEN BinaryField(b, t, i, T)
    ELSE TextField(b, i)

(***************************************************************************)
(* The inputs of the model.                                                *)
(***************************************************************************)
\* what the caller's buffer holds when the encoder is constructed over it
InitBufs == {<<>>} \cup {<<b>> : b \in PayloadBytes}

\* a field as given to encode, or as the server put it on the wire
Field(ty, value) == [ty |-> ty, value |-> value]
WireFields == {Field(Resolved(o), v) : o \in FieldOids, v \in Values}
WireLists == UNION {[1..n -> WireFields] : n \in 0..MaxFields}

\* the binary layout of a composite value on the wire
WireField(f) ==
    BeBytes(f.ty.oid)
        \o (IF f.value.some THEN BeBytes(Len(f.value.bytes)) ELSE BeBytes(0 - 1))
        \o f.value.bytes
RECURSIVE WireBody(_)
WireBody(fs) == IF fs = <<>> THEN <<>> ELSE WireField(Head(fs)) \o WireBody(Tail(fs))
WireRecord(fs) == BeBytes(Len(fs)) \o WireBody(fs)

\* the text layout: any characters between the parentheses
Texts == UNION {[1..n -> TextAlphabet] : n \in 0..MaxText}
WireText(t) == <<CH_LPAREN>> \o t \o <<CH_RPAREN>>
\* the longer text values `a\,b,c` and `"say ""hi""",x`
EscapedCommaText == <<97, 92, 44, 98, 44, 99>>
DoubledQuoteText ==
    <<34, 115, 97, 121, 32, 34, 34, 104, 105, 34, 34, 34, 44, 120>>
LongTexts == {EscapedCommaText, DoubledQuoteText}

NoCall == [op |-> "none", res |-> "ok", ty |-> Resolved(0), value |-> None,
           pre |-> <<>>, ind |-> 0, T |-> {}]
Call(op, res, ty, value, pre, i, T) ==
    [op |-> op, res |-> res, ty |-> ty, value |-> value, pre |-> pre, ind |-> i, T |-> T]

Result(o, T) == [res |-> o.res, idx |-> o.idx, value |-> o.value, ty |-> o.ty, T |-> T]

Init ==
    /\ buf = <<>>
    /\ type_holes = <<>>
    /\ enc = "none"
    /\ off = 0
    /\ num = 0
    /\ dec = "none"
    /\ dbuf = <<>>
    /\ typ = RecordType
    /\ fmt = "Binary"
    /\ ind = 0
    /\ panicked = FALSE
    /\ last = NoCall
    /\ hist = [buf0 |-> <<>>, fields |-> <<>>, finishes |-> 0, input |-> None,
               whole |-> FALSE, rt |-> FALSE, results |-> <<>>]

(***************************************************************************)
(* PgRecordEncoder                                                         *)
(***************************************************************************)
\* PgRecordEncoder::new (lines 20-27)
EncNew ==
    /\ ~panicked /\ enc = "none" /\ dec = "none" /\ last.op = "none"
    /\ \E b \in InitBufs :
        /\ off' = Len(b)
        /\ buf' = b \o BeBytes(0)
        /\ last' = Call("new", "ok", Resolved(0), None, b, 0, {})
        /\ hist' = [hist EXCEPT !.buf0 = b]
    /\ enc' = "open"
    /\ num' = 0
    /\ UNCHANGED <<type_holes, decVars, panicked>>

\* PgRecordEncoder::finish (lines 30-33)
Finish ==
    /\ ~panicked /\ enc = "open" /\ dec = "none"
    /\ hist.finishes < MaxFinish
    /\ LET src == BeBytes(num)
           fits == CopyFits(buf, off, src)
       IN  /\ buf' = IF fits THEN CopyFromSlice(buf, off, src) ELSE buf
           /\ panicked' = ~fits
           /\ last' = Call("finish", IF fits THEN "ok" ELSE "panic",
                           Resolved(0), None, buf, 0, {})
    /\ hist' = [hist EXCEPT !.finishes = @ + 1]
    /\ UNCHANGED <<type_holes, enc, off, num, decVars>>

\* PgRecordEncoder::encode (lines 36-64)
Encode ==
    /\ ~panicked /\ enc = "open" /\ dec = "none"
    /\ Len(hist.fields) < MaxFields
    /\ \E ty \in EncTypes, value \in Values :
        LET b1 == IF ty.declared THEN buf \o HoleBytes ELSE buf \o BeBytes(ty.oid)
            offset == Len(b1)
            b2 == b1 \o BeBytes(0)
            b3 == b2 \o CodecBytes(value)
            size == SizeOf(~value.some, Len(b3), offset)
            fits == CopyFits(b3, offset, BeBytes(size))
        IN  /\ type_holes' = IF ty.declared
                             THEN PushTypeHole(type_holes, Len(buf), ty.name)
                             ELSE type_holes
            /\ buf' = IF fits THEN CopyFromSlice(b3, offset, BeBytes(size)) ELSE b3
            /\ panicked' = ~fits
            /\ last' = Call("encode", IF fits THEN "ok" ELSE "panic",
                            ty, value, buf, 0, {})
            /\ hist' = [hist EXCEPT !.fields = Append(@, Field(ty, value))]
    /\ UNCHANGED <<enc, off, num, decVars>>

(***************************************************************************)
(* PgRecordDecoder                                                         *)
(***************************************************************************)
\* PgRecordDecoder::new (lines 77-99) over the value [t, f, value]
DecNewOn(t, f, value, fields, whole, rt) ==
    LET ok == IF ~value.some THEN FALSE
              ELSE IF f = "Binary" THEN Len(value.bytes) >= 4
              ELSE Len(value.bytes) >= 2
        res == IF ~value.some THEN "err" ELSE IF ok THEN "ok" ELSE "panic"
    IN  /\ dec' = IF ok THEN "open" ELSE dec
        /\ dbuf' = IF ~ok THEN <<>>
                   ELSE IF f = "Binary" THEN Drop(value.bytes, 4)
                   ELSE SubSeq(value.bytes, 2, Len(value.bytes) - 1)
        /\ typ' = t
        /\ fmt' = f
        /\ ind' = 0
        /\ panicked' = (res = "panic")
        /\ last' = Call("dec_new", res, Resolved(0), value, <<>>, 0, {})
        /\ hist' = [hist EXCEPT !.fields = fields, !.input = value,
                                !.whole = whole, !.rt = rt]

\* a decoder over a binary value received from the server, whole or cut short
DecNewBinary ==
    /\ ~panicked /\ enc = "none" /\ dec = "none" /\ last.op = "none"
    /\ \E t \in DecTypes, fs \in WireLists :
        \E cut \in 0..Len(WireRecord(fs)) :
            DecNewOn(t, "Binary", Some(Take(WireRecord(fs), cut)), fs,
                     cut = Len(WireRecord(fs)), FALSE)
    /\ UNCHANGED encVars

\* a decoder over a text value received from the server
DecNewText ==
    /\ ~panicked /\ enc = "none" /\ dec = "none" /\ last.op = "none"
    /\ \E t \in DecTypes :
        \E raw \in {WireText(x) : x \in Texts \cup LongTexts} \cup {<<>>, <<CH_LPAREN>>} :
            DecNewOn(t, "Text", Some(raw), <<>>, Len(raw) >= 2, FALSE)
    /\ UNCHANGED encVars

\* a decoder over a NULL value: as_bytes fails
DecNewNull ==
    /\ ~panicked /\ enc = "none" /\ dec = "none" /\ last.op = "none"
    /\ \E t \in DecTypes, f \in {"Binary", "Text"} :
        DecNewOn(t, f, None, <<>>, FALSE, FALSE)
    /\ UNCHANGED encVars

\* a decoder over the bytes the encoder produced, read back as a generic
\* record in the binary format
DecNewRoundTrip ==
    /\ ~panicked /\ enc = "open" /\ dec = "none"
    /\ last.op = "finish"
    /\ DecNewOn(RecordType, "Binary", Some(Drop(buf, off)), hist.fields, TRUE, TRUE)
    /\ UNCHANGED encVars

\* PgRecordDecoder::try_decode::<T> (lines 102-224)
TryDecode ==
    /\ ~panicked /\ dec = "open"
    /\ Len(hist.results) < MaxCalls
    /\ \E T \in Targets :
        LET o == TryDecodeOutcome(dbuf, typ, fmt, ind, T)
        IN  /\ dbuf' = o.dbuf
            /\ ind' = o.ind
            /\ panicked' = (o.res = "panic")
            /\ last' = Call("try_decode", o.res, Resolved(0), o.value, dbuf, ind, T)
            /\ hist' = [hist EXCEPT !.results = Append(@, Result(o, T))]
    /\ UNCHANGED <<encVars, dec, typ, fmt>>

Next ==
    \/ EncNew
    \/ Encode
    \/ Finish
    \/ DecNewBinary
    \/ DecNewText
    \/ DecNewNull
    \/ DecNewRoundTrip
    \/ TryDecode

Spec == Init /\ [][Next]_vars

(***************************************************************************)
(* Properties                                                              *)
(***************************************************************************)
\* the length field of the field written by the last encode call
LengthField == SubSeq(buf, Len(last.pre) + 5, Len(last.pre) + 8)
\* the text between the parentheses of the value the decoder was built over
InputText == SubSeq(hist.input.bytes, 2, Len(hist.input.bytes) - 1)
NumResults == Len(hist.results)
IsNullField(r) == r.res = "decoded" /\ r.value = None
IsEmptyField(r) == r.res = "decoded" /\ r.value = Some(<<>>)

\* C1: after new, N encode calls and finish, the four bytes at the offset
\* reserved by new hold N, the number of encode calls, as a big-endian u32.
C1_FieldCountIntegrity ==
    last.op = "finish" =>
        /\ last.res = "ok"
        /\ SubSeq(buf, off + 1, off + 4) = BeBytes(Len(hist.fields))

\* C2: new, encode x N of fields with resolved OIDs and finish produce bytes
\* from which a binary decoder over the generic record type returns, call
\* after call, the original payloads and NULLs in the original order.
C2_RoundTrip ==
    /\ (last.op = "finish" /\ \A j \in 1..Len(hist.fields) : ~hist.fields[j].ty.declared)
            => last.res = "ok"
    /\ hist.rt =>
            \A j \in 1..NumResults :
                (j <= Len(hist.fields) /\ Accepts(hist.results[j].T, hist.fields[j].ty.oid))
                    => /\ hist.results[j].res = "decoded"
                       /\ hist.results[j].value = hist.fields[j].value

\* C3: an encode call whose value is not NULL and appends p bytes writes
\* exactly p into the length field of that field.
C3_LengthIsPayloadLength ==
    (last.op = "encode" /\ last.res = "ok" /\ last.value.some)
        => LengthField = BeBytes(Len(last.value.bytes))

\* C4: an encode call of a value that is not NULL completes, and leaves the
\* bytes before the field and the payload bytes the value codec appended as
\* they were: the backpatch touches the four placeholder bytes only.
C4_BackpatchFrame ==
    (last.op = "encode" /\ last.value.some) =>
        /\ last.res = "ok"
        /\ Take(buf, Len(last.pre)) = last.pre
        /\ Drop(buf, Len(last.pre) + 8) = last.value.bytes

\* C5: an encode call of a NULL value completes, writes -1 (FF FF FF FF) into
\* the length field and grows the buffer by the type identifier and the
\* length field only: eight bytes, none of them payload.
C5_NullSentinel ==
    (last.op = "encode" /\ ~last.value.some) =>
        /\ last.res = "ok"
        /\ Len(buf) = Len(last.pre) + 8
        /\ Take(buf, Len(last.pre)) = last.pre
        /\ LengthField = <<255, 255, 255, 255>>
        /\ ~last.ty.declared =>
               SubSeq(buf, Len(last.pre) + 1, Len(last.pre) + 4) = BeBytes(last.ty.oid)

\* a NULL encoded as the second field of a record
C5_Witness ==
    /\ last.op = "encode" /\ ~last.value.some /\ last.res = "ok"
    /\ Len(hist.fields) = 2
    /\ LengthField = <<255, 255, 255, 255>>

\* C6: no call of the decoder or of the encoder panics, whatever its input.
C6_NoPanic == ~panicked

\* the commas of a text without quotes and backslashes: all are top-level
PlainText == \A k \in 1..Len(InputText) : InputText[k] \notin {CH_QUOTE, CH_BACKSLASH}
Commas == Cardinality({k \in 1..Len(InputText) : InputText[k] = CH_COMMA})

\* C7: a text value with n >= 1 top-level commas has n + 1 fields, all of
\* which decode, an empty one as NULL even when it is the last; `(,)` is two
\* NULL fields and `("",)` an empty field followed by a NULL field.
C7_TextFieldCount ==
    (dec = "open" /\ fmt = "Text") =>
        /\ (PlainText /\ Commas >= 1)
              => \A j \in 1..NumResults :
                    j <= Commas + 1 => hist.results[j].res = "decoded"
        /\ (InputText = <<CH_COMMA>> /\ NumResults >= 2)
              => IsNullField(hist.results[1]) /\ IsNullField(hist.results[2])
        /\ (InputText = <<CH_QUOTE, CH_QUOTE, CH_COMMA>> /\ NumResults >= 2)
              => IsEmptyField(hist.results[1]) /\ IsNullField(hist.results[2])

\* C8: in the binary format, once k calls have each decoded one field of a
\* whole record of k fields, the next call fails with "no field `k` found on
\* record".
C8_BinaryExhaustion ==
    (/\ fmt = "Binary" /\ hist.whole
     /\ NumResults = Len(hist.fields) + 1
     /\ \A j \in 1..Len(hist.fields) : hist.results[j].res = "decoded")
        => /\ hist.results[NumResults].res = "no_field"
           /\ hist.results[NumResults].idx = Len(hist.fields)

\* two fields decoded, and the third call names index 2
C8_Witness ==
    /\ fmt = "Binary" /\ hist.whole /\ Len(hist.fields) = 2 /\ NumResults = 3
    /\ hist.results[1].res = "decoded" /\ hist.results[2].res = "decoded"
    /\ hist.results[3].res = "no_field" /\ hist.results[3].idx = 2

\* the declared field list covers the position of the last call, and the OID
\* at the head of the payload is not the declared one
OidDisagrees ==
    /\ last.op = "try_decode" /\ fmt = "Binary" /\ typ.kind = "Composite"
    /\ Len(last.pre) >= 4
    /\ last.ind < Len(typ.fields)
    /\ FromBeBytes(Take(last.pre, 4)) # typ.fields[last.ind + 1]

\* C9: in the binary format over a composite, a call at a position of the
\* declared field list whose OID in the payload differs from the declared OID
\* fails with the composite mismatch error; decode is not invoked.
C9_CompositeMismatch ==
    OidDisagrees =>
        /\ last.res = "composite_mismatch"
        /\ hist.results[NumResults].res = "composite_mismatch"
        /\ hist.results[NumResults].value = None

\* the second field of a composite disagrees, after the first was decoded
C9_Witness ==
    /\ OidDisagrees /\ last.ind = 1 /\ last.res = "composite_mismatch"
    /\ hist.results[1].res = "decoded"

\* C10: over a value whose type is neither the generic record nor a
\* composite, every try_decode call that returns, returns an error, in the
\* text format as in the binary format.
C10_KindCheck ==
    (/\ last.op = "try_decode" /\ last.res # "panic"
     /\ typ.kind # "Composite" /\ typ.pg # "Record")
        => last.res \in {"no_field", "not_composite", "composite_mismatch",
                         "mismatched_types"}
(***************************************************************************)
(* The text of a field as the composite text grammar reads it: a backslash *)
(* is dropped and makes the next character literal, an unescaped quote     *)
(* opens or closes a quoted span and adds nothing, except that a quote     *)
(* opening a span right after a quote that closed one adds one quote.      *)
(***************************************************************************)
GrammarStart(t) ==
    [buf |-> t, element |-> <<>>, in_quotes |-> FALSE, in_escape |-> FALSE,
     closed |-> FALSE, done |-> FALSE]
GrammarChar(g) ==
    LET ch == Head(g.buf)
        g1 == [g EXCEPT !.buf = Tail(g.buf), !.closed = FALSE]
    IN  IF g.in_escape
        THEN [g1 EXCEPT !.element = g.element \o Utf8(ch), !.in_escape = FALSE]
        ELSE IF ch = CH_QUOTE /\ g.in_quotes
        THEN [g1 EXCEPT !.in_quotes = FALSE, !.closed = TRUE]
        ELSE IF ch = CH_QUOTE
        THEN [g1 EXCEPT !.in_quotes = TRUE,
                        !.element = IF g.closed THEN g.element \o <<CH_QUOTE>>
                                    ELSE g.element]
        ELSE IF ch = CH_BACKSLASH
        THEN [g1 EXCEPT !.in_escape = TRUE]
        ELSE IF ch = CH_COMMA /\ ~g.in_quotes
        THEN [g1 EXCEPT !.done = TRUE]
        ELSE [g1 EXCEPT !.element = g.element \o Utf8(ch)]
RECURSIVE GrammarField(_)
GrammarField(g) == IF g.done \/ g.buf = <<>> THEN g ELSE GrammarField(GrammarChar(g))

\* the text of the j-th result, empty for NULL
ResultText(j) == hist.results[j].value.bytes
TextDecoded(j) == NumResults >= j /\ hist.results[j].res = "decoded"

\* C11: the text of a decoded field is the text the grammar gives it: the
\* backslash is dropped and its next character kept, quotes add nothing but
\* for the doubled quote, and a quote opening a span after a
\* backslash-escaped quote adds none; `(a\,b,c)` is `a,b` then `c` and
\* `("say ""hi""",x)` is `say "hi"` then `x`.
C11_TextEscapes ==
    (dec = "open" /\ fmt = "Text") =>
        /\ TextDecoded(1) => ResultText(1) = GrammarField(GrammarStart(InputText)).element
        /\ (InputText = EscapedCommaText /\ TextDecoded(2))
              => ResultText(1) = <<97, 44, 98>> /\ ResultText(2) = <<99>>
        /\ (InputText = DoubledQuoteText /\ TextDecoded(2))
              => /\ ResultText(1) = <<115, 97, 121, 32, 34, 104, 105, 34>>
                 /\ ResultText(2) = <<120>>

\* what is left of a text without quotes and backslashes after j fields
RECURSIVE AfterFields(_, _)
AfterFields(t, j) ==
    IF j = 0 \/ t = <<>> THEN t
    ELSE IF Head(t) = CH_COMMA THEN AfterFields(Tail(t), j - 1)
    ELSE AfterFields(Tail(t), j)

\* no call so far reported exhaustion or panicked
NoneExhausted ==
    /\ ~panicked
    /\ \A j \in 1..NumResults : hist.results[j].res # "no_field"

\* C12: every try_decode call that returns a value or an error other than
\* exhaustion leaves the cursor behind one whole field: after j such calls
\* on a whole binary record the slice is the fields after the j-th, and in a
\* text it is what follows the j-th delimiting comma.
C12_WholeFieldAdvance ==
    (dec = "open" /\ hist.whole /\ NoneExhausted) =>
        /\ (fmt = "Binary" /\ NumResults <= Len(hist.fields))
              => dbuf = WireBody(SubSeq(hist.fields, NumResults + 1, Len(hist.fields)))
        /\ (fmt = "Text" /\ PlainText)
              => dbuf = AfterFields(InputText, NumResults)

\* C13: in the text format an exhaustion error names the index of the next
\* field, the number of fields decoded before it.
C13_TextExhaustionIndex ==
    (fmt = "Text" /\ last.op = "try_decode" /\ last.res = "no_field") =>
        hist.results[NumResults].idx =
            Cardinality({j \in 1..NumResults : hist.results[j].res = "decoded"})
\* C14: finish completes after any number of encoded fields, writes the
\* counter into the four bytes at off and leaves the length of the buffer and
\* every other byte as they were; a second finish changes nothing.
C14_FinishFrame ==
    last.op = "finish" =>
        /\ last.res = "ok"
        /\ Len(buf) = Len(last.pre)
        /\ SubSeq(buf, off + 1, off + 4) = BeBytes(num)
        /\ Take(buf, off) = Take(last.pre, off)
        /\ Drop(buf, off + 4) = Drop(last.pre, off + 4)
        /\ hist.finishes >= 2 => buf = last.pre

\* the bytes the last binary call found behind the OID: the length field
LengthRead == FromBeBytes(SubSeq(last.pre, 5, 8))
BinaryDecoded ==
    /\ last.op = "try_decode" /\ last.res = "decoded" /\ fmt = "Binary"

\* C15: a binary call that decodes a field with a negative length passes no
\* payload and leaves the cursor right behind the length field; with a length
\* L >= 0 it passes the next L bytes and leaves the cursor L bytes further,
\* which on a whole record is the start of the following fields.
C15_BinaryLength ==
    BinaryDecoded =>
        /\ LengthRead < 0 => last.value = None /\ dbuf = Drop(last.pre, 8)
        /\ LengthRead >= 0 =>
              /\ last.value = Some(SubSeq(last.pre, 9, 8 + LengthRead))
              /\ dbuf = Drop(last.pre, 8 + LengthRead)
        /\ (hist.whole /\ \A j \in 1..NumResults : hist.results[j].res = "decoded")
              => dbuf = WireBody(SubSeq(hist.fields, NumResults + 1, Len(hist.fields)))

\* a NULL field and then a field of one byte decoded from a whole record
C15_Witness ==
    /\ BinaryDecoded /\ hist.whole /\ NumResults = 2
    /\ hist.results[1].res = "decoded" /\ hist.results[1].value = None
    /\ LengthRead = 1 /\ Len(last.value.bytes) = 1 /\ dbuf = <<>>
\* the OID the last binary call read, and the descriptor of its result
OidRead == FromBeBytes(Take(last.pre, 4))
LastType == hist.results[NumResults].ty
OverRecord == typ.kind = "Simple" /\ typ.pg = "Record"
\* the last call is at a position whose declared OID is the OID it read
AtDeclared ==
    /\ typ.kind = "Composite" /\ last.ind < Len(typ.fields)
    /\ typ.fields[last.ind + 1] = OidRead

\* C16: in the binary format decode is invoked only with the bare descriptor
\* of an OID the catalog did not resolve, or with a resolved type the target
\* accepts; a resolved type the target does not accept is a type mismatch
\* error.  In the text format decode is always invoked, with OID 0.
C16_AcceptanceGate ==
    last.op = "try_decode" =>
        /\ (fmt = "Binary" /\ Len(last.pre) >= 4 /\ OverRecord) =>
              /\ (OidRead \in KnownOids /\ ~Accepts(last.T, OidRead))
                    => last.res = "mismatched_types"
              /\ last.res = "decoded" =>
                    IF OidRead \in KnownOids
                    THEN Accepts(last.T, OidRead) /\ LastType = FromCatalog(OidRead)
                    ELSE LastType = WithOid(OidRead)
        /\ (fmt = "Binary" /\ Len(last.pre) >= 4 /\ AtDeclared) =>
              /\ ~Accepts(last.T, OidRead) => last.res = "mismatched_types"
              /\ last.res = "decoded" =>
                    Accepts(last.T, OidRead) /\ LastType = FromCatalog(OidRead)
        /\ (fmt = "Text" /\ last.pre # <<>>) =>
              last.res = "decoded" /\ LastType = WithOid(0)

\* an unresolved OID decoded with its bare descriptor, then a resolved type
\* the target does not accept
C16_Witness ==
    /\ last.op = "try_decode" /\ fmt = "Binary" /\ OverRecord /\ NumResults = 2
    /\ hist.results[1].res = "decoded" /\ ~hist.results[1].ty.catalog
    /\ hist.results[1].ty.oid \notin KnownOids
    /\ Len(last.pre) >= 4
    /\ OidRead \in KnownOids /\ ~Accepts(last.T, OidRead)
    /\ last.res = "mismatched_types"

\* the characters the last text call consumed
Consumed == Take(last.pre, Len(last.pre) - Len(dbuf))
\* the backslashes that end right before position k
RECURSIVE BackslashRun(_, _)
BackslashRun(c, k) ==
    IF k > 1 /\ c[k - 1] = CH_BACKSLASH THEN 1 + BackslashRun(c, k - 1) ELSE 0
HasUnescapedQuote(c) ==
    \E k \in 1..Len(c) : c[k] = CH_QUOTE /\ BackslashRun(c, k) % 2 = 0
TextDecodedLast == last.op = "try_decode" /\ fmt = "Text" /\ last.res = "decoded"

\* C17: a text field is NULL exactly when its accumulated text is empty and
\* it has no unescaped quote; with an empty text and a quoted span it is a
\* present payload of length zero.
C17_NullVersusEmpty ==
    TextDecodedLast =>
        LET element == Scan(ScanStart(last.pre)).element
        IN  /\ last.value = None <=> (element = <<>> /\ ~HasUnescapedQuote(Consumed))
            /\ (element = <<>> /\ HasUnescapedQuote(Consumed)) => last.value = Some(<<>>)
            /\ last.value.some => last.value.bytes = element

\* `(,"")`: a NULL field and then an empty quoted field
C17_Witness ==
    /\ TextDecodedLast /\ NumResults = 2
    /\ hist.results[1].value = None
    /\ last.value = Some(<<>>) /\ HasUnescapedQuote(Consumed)
\* the length of the working slice the decoder started with
SliceLen == Len(hist.input.bytes) - (IF fmt = "Binary" THEN 4 ELSE 2)

\* C18: a try_decode call never grows the working slice and, when it returns
\* from a slice that is not empty, has consumed at least one byte; over a
\* slice of n bytes every call after the n-th reports exhaustion.
C18_Terminates ==
    /\ last.op = "try_decode" =>
          /\ Len(dbuf) <= Len(last.pre)
          /\ (last.pre # <<>> /\ ~panicked) => Len(dbuf) < Len(last.pre)
    /\ (dec = "open" /\ ~panicked) =>
          \A j \in 1..NumResults : j > SliceLen => hist.results[j].res = "no_field"

\* `(,a)`: two bytes, two fields, and the third call reports exhaustion
C18_Witness ==
    /\ dec = "open" /\ fmt = "Text" /\ SliceLen = 2 /\ NumResults = 3
    /\ hist.results[1].res = "decoded" /\ hist.results[2].res = "decoded"
    /\ hist.results[3].res = "no_field"

\* the step is a try_decode call
CallStep == last'.op = "try_decode" /\ Len(hist'.results) = NumResults + 1
Exhausted == last.op = "try_decode" /\ last.res = "no_field"

\* C19: a try_decode call that reports exhaustion leaves the slice, the
\* counter, the type and the format as they were, and every call after it
\* reports exhaustion with the same index.
C19_ExhaustionAbsorbing ==
    [][CallStep =>
          /\ last'.res = "no_field" => UNCHANGED <<dbuf, ind, typ, fmt>>
          /\ Exhausted =>
                /\ last'.res = "no_field"
                /\ hist'.results[NumResults + 1].idx = hist.results[NumResults].idx]_vars

\* one field decoded, then exhaustion twice with index 1
C19_Witness ==
    /\ fmt = "Binary" /\ NumResults = 3
    /\ hist.results[1].res = "decoded"
    /\ hist.results[2].res = "no_field" /\ hist.results[2].idx = 1
    /\ hist.results[3].res = "no_field" /\ hist.results[3].idx = 1

\* C20: after every encoder call that completes the first off bytes of the
\* buffer are what the buffer held at construction, off is what new recorded
\* and the buffer is no shorter than before the call.
C20_EncoderFrame ==
    [][(enc' = "open" /\ ~panicked') =>
          /\ off' = Len(hist'.buf0)
          /\ Take(buf', off') = hist'.buf0
          /\ enc = "open" => off' = off /\ Len(buf') >= Len(buf)]_vars

\* two fields encoded behind a buffer that was not empty
C20_Witness ==
    /\ enc = "open" /\ ~panicked /\ last.op = "encode"
    /\ hist.buf0 # <<>> /\ Len(hist.fields) = 2
    /\ Take(buf, off) = hist.buf0
====
